---- MODULE Spec2Model ----
(***************************************************************************)
(* Model of crossbench/python/bench_ws.py: a WebSocket echo micro-benchmark.*)
(* One driver task (main -> _async_main -> run_benchmark) and one           *)
(* echo_handler task run on a cooperative single-threaded event loop and    *)
(* talk only through one connection.  The transport library and the         *)
(* operating system are the environment: they bind ports, deliver messages  *)
(* in order, and may break the connection at either end, losing what is in  *)
(* flight; the other end learns of the break later.                         *)
(***************************************************************************)
EXTENDS Integers, Sequences, FiniteSets, TLC

\* ------------------------------------------------------------------ bounds
MaxIters == 2
MaxPayload == 1
MaxPort == 2
MaxTick == 1

\* ------------------------------------------------------------ input domains
IterValues == -1..MaxIters
\* the empty payload and the largest one: sizes in between differ only in
\* the number of filler bytes
PayloadValues == {0, MaxPayload}
Ports == 1..MaxPort
Hosts == {"127.0.0.1"}

\* ---------------------------------------------------------------- encoding
\* json.dumps(o).encode("utf-8") up to the payload: {"id": 1, "method": "test", "params": {"data": "
JsonHead ==
  <<123, 34, 105, 100, 34, 58, 32, 49, 44, 32, 34, 109, 101, 116, 104, 111,
    100, 34, 58, 32, 34, 116, 101, 115, 116, 34, 44, 32, 34, 112, 97, 114,
    97, 109, 115, 34, 58, 32, 123, 34, 100, 97, 116, 97, 34, 58, 32, 34>>

\* orjson.dumps(o) up to the payload: {"id":1,"method":"test","params":{"data":"
OrjsonHead ==
  <<123, 34, 105, 100, 34, 58, 49, 44, 34, 109, 101, 116, 104, 111, 100, 34,
    58, 34, 116, 101, 115, 116, 34, 44, 34, 112, 97, 114, 97, 109, 115, 34,
    58, 123, 34, 100, 97, 116, 97, 34, 58, 34>>

\* the closing "}} of both encodings
EncTail == <<34, 125, 125>>

\* "x" * payload
payload_str(payload) == [k \in 1..payload |-> 120]

\* encode(msg_obj): the bytes of the message for a payload size
encode(orjson, payload) ==
  (IF orjson THEN OrjsonHead ELSE JsonHead) \o payload_str(payload) \o EncTail

\* ------------------------------------------------------------------- state
VARIABLES
  args,       \* parsed command line: iters, payload, host, port, use_sdk
  has_orjson, \* whether the orjson import succeeded
  taken,      \* ports bound by other processes
  pc,         \* the driver task's position
  port,       \* main's local: the resolved port (0 before line 116)
  failure,    \* the exception that ended the run ("none" while there is none)
  server,     \* the responder: [state, host, port]
  conn,       \* the one connection as each end sees it, [client, server]:
              \* none, open, closing (client only), closed_ok, closed_err
  uri,        \* the address the client connected to (<<>> before connect)
  c2s,        \* messages in flight, client to server
  s2c,        \* messages in flight, server to client
  hpc,        \* the echo_handler task's position
  hmsg,       \* the message echo_handler holds between recv and send
  i,          \* the loop counter of the timed loop
  timer,      \* perf_counter_ns readings taken so far: <<>>, <<t0>>, <<t0, t1>>
  clock,      \* the monotonic clock, relative to the t0 reading (the reference
              \* point of perf_counter_ns is undefined)
  metrics,    \* total_ns, ns_per, ops_per_sec, bytes_per once computed
  out,        \* lines printed to standard output
  log,        \* history: the driver's steps in order
  sentLog,    \* history: messages the driver sent
  recvLog,    \* history: replies the driver received
  echoLog,    \* history: messages the handler received and emitted
  hcaught     \* history: whether echo_handler caught an exception

vars == <<args, has_orjson, taken, pc, port, failure, server, conn, uri, c2s,
          s2c, hpc, hmsg, i, timer, clock, metrics, out, log, sentLog,
          recvLog, echoLog, hcaught>>

driverVars == <<pc, port, failure, uri, i, timer, metrics, out, log, sentLog,
                recvLog>>

NoServer == [state |-> "down", host |-> "", port |-> 0]
NoMetrics == [computed |-> FALSE]
NoMsg == [seq |-> -1, data |-> <<>>]
NoConn == [client |-> "none", server |-> "none"]
OpenConn == [client |-> "open", server |-> "open"]

Init ==
  /\ args \in [iters : IterValues, payload : PayloadValues, host : Hosts,
               port : 0..MaxPort, use_sdk : BOOLEAN]
  /\ has_orjson \in BOOLEAN
  /\ taken \in {T \in SUBSET Ports : Cardinality(T) <= 1 /\ T # Ports}
  /\ pc = "main"
  /\ port = 0
  /\ failure = "none"
  /\ server = NoServer
  /\ conn = NoConn
  /\ uri = <<>>
  /\ c2s = <<>>
  /\ s2c = <<>>
  /\ hpc = "none"
  /\ hmsg = NoMsg
  /\ i = 0
  /\ timer = <<>>
  /\ clock = 0
  /\ metrics = NoMetrics
  /\ out = <<>>
  /\ log = <<>>
  /\ sentLog = <<>>
  /\ recvLog = <<>>
  /\ echoLog = [received |-> <<>>, emitted |-> <<>>]
  /\ hcaught = FALSE

\* ----------------------------------------------------------------- helpers
InSeq(x, s) == \E k \in 1..Len(s) : s[k] = x
Count(x, s) == Cardinality({k \in 1..Len(s) : s[k] = x})
FirstIdx(x, s) == CHOOSE k \in 1..Len(s) : s[k] = x /\ \A j \in 1..(k - 1) : s[j] # x
IsPrefix(s, t) == Len(s) <= Len(t) /\ \A k \in 1..Len(s) : s[k] = t[k]
Printed(kind) == \E k \in 1..Len(out) : out[k].kind = kind

\* Seeded fault: the failed step is retried instead of ending the run.
RaiseAndRetry(exc) ==
  /\ log' = Append(log, "raise")
  /\ UNCHANGED <<failure, pc, conn>>

\* An exception leaves run_benchmark / _async_main: the context managers
\* unwind and asyncio.run re-raises it.  Every step that raises does so with
\* the client's end not open (never opened, or already closed), so leaving
\* the connect block has nothing to close; the server is shut down at
\* "server_exit".
Raise(exc) ==
  /\ failure' = exc
  /\ log' = Append(log, "raise")
  /\ pc' = "server_exit"
  /\ UNCHANGED conn

\* ------------------------------------------------------------- environment
\* One other process binds a port before the responder does (for a port that
\* get_free_port picked: in the window between its close and the bind of
\* websockets.serve).
OtherProcessBinds ==
  /\ pc \in {"main", "resolve_port", "serve"}
  /\ taken = {}
  /\ \E p \in Ports : taken' = {p}
  /\ UNCHANGED <<args, has_orjson, pc, port, failure, server, conn, uri, c2s,
                 s2c, hpc, hmsg, i, timer, clock, metrics, out, log, sentLog,
                 recvLog, echoLog, hcaught>>

\* The transport breaks the open connection at one end (reset, abrupt
\* disconnect, protocol error).  That end sees it closed abnormally at once;
\* the other end still sees it open.  Messages in flight in either direction
\* are lost, or had already arrived and can still be read.
NetFault ==
  /\ \A o \in {"client", "server"} : conn[o] \in {"none", "open", "closing"}
  /\ \E e \in {"client", "server"} :
       /\ conn[e] = "open"
       /\ conn' = [conn EXCEPT ![e] = "closed_err"]
  /\ \E keep \in BOOLEAN :
       /\ c2s' = IF keep THEN c2s ELSE <<>>
       /\ s2c' = IF keep THEN s2c ELSE <<>>
  /\ UNCHANGED <<args, has_orjson, taken, pc, port, failure, server, uri,
                 hpc, hmsg, i, timer, clock, metrics, out, log, sentLog,
                 recvLog, echoLog, hcaught>>

\* The end that still sees a broken connection open learns of the break.
PeerNotices ==
  /\ \E e \in {"client", "server"} :
       /\ conn[e] \in {"open", "closing"}
       /\ \E o \in {"client", "server"} : conn[o] = "closed_err"
       /\ conn' = [conn EXCEPT ![e] = "closed_err"]
  /\ UNCHANGED <<args, has_orjson, taken, pc, port, failure, server, uri, c2s,
                 s2c, hpc, hmsg, i, timer, clock, metrics, out, log, sentLog,
                 recvLog, echoLog, hcaught>>

\* ------------------------------------------------------------------ driver
\* get_free_port(): a port no process holds at the time of the call
get_free_port(p) == p \in Ports \ taken

\* main, lines 106-114: the optional python-sdk install, which only prints
main_use_sdk ==
  /\ pc = "main"
  /\ \/ /\ ~args.use_sdk
        /\ out' = out
     \/ /\ args.use_sdk
        /\ out' = out \o <<[kind |-> "installing"], [kind |-> "installed"]>>
     \/ /\ args.use_sdk
        /\ out' = out \o <<[kind |-> "installing"], [kind |-> "falling_back"]>>
  /\ pc' = "resolve_port"
  /\ UNCHANGED <<args, has_orjson, taken, port, failure, server, conn, uri,
                 c2s, s2c, hpc, hmsg, i, timer, clock, metrics, log, sentLog,
                 recvLog, echoLog, hcaught>>

\* main, line 116: port = args.port or get_free_port()
main_resolve_port ==
  /\ pc = "resolve_port"
  /\ \/ /\ args.port # 0
        /\ port' = args.port
     \/ /\ args.port = 0
        /\ \E p \in Ports : get_free_port(p) /\ port' = p
  /\ pc' = "serve"
  /\ UNCHANGED <<args, has_orjson, taken, failure, server, conn, uri, c2s,
                 s2c, hpc, hmsg, i, timer, clock, metrics, out, log, sentLog,
                 recvLog, echoLog, hcaught>>

\* _async_main, line 120: entering "async with websockets.serve(...)"; the
\* bind fails with OSError when another process holds the port.
async_main_serve ==
  /\ pc = "serve"
  /\ \/ /\ port \notin taken
        /\ server' = [state |-> "listening", host |-> args.host, port |-> port]
        /\ log' = Append(log, "serve")
        /\ pc' = "connect"
        /\ UNCHANGED failure
     \/ /\ port \in taken
        /\ failure' = "OSError"
        /\ log' = Append(log, "raise")
        /\ pc' = "failed"
        /\ UNCHANGED server
  /\ UNCHANGED <<args, has_orjson, taken, port, conn, uri, c2s, s2c, hpc,
                 hmsg, i, timer, clock, metrics, out, sentLog, recvLog,
                 echoLog, hcaught>>

\* Seeded fault: the configured port, not the resolved one, reaches
\* run_benchmark.
BenchmarkPortUnresolved == args.port

\* _async_main, line 121: the host and port handed to run_benchmark
BenchmarkHost == args.host
BenchmarkPort == port

\* whether the responder accepts connections at an address
Listening(addr) ==
  /\ server.state = "listening"
  /\ server.host = addr[1]
  /\ server.port = addr[2]

\* run_benchmark, lines 61 and 75: entering "async with websockets.connect(uri)"
\* starts the opening handshake and suspends the driver; with no responder
\* at the address the connection is refused
run_benchmark_connect ==
  /\ pc = "connect"
  /\ uri' = <<BenchmarkHost, BenchmarkPort>>
  /\ \/ /\ Listening(uri')
        /\ pc' = "connecting"
        /\ UNCHANGED <<failure, log, conn>>
     \/ /\ ~Listening(uri')
        /\ Raise("ConnectionError")
  /\ UNCHANGED <<args, has_orjson, taken, port, server, c2s, s2c, hpc, hmsg,
                 i, timer, clock, metrics, out, sentLog, recvLog, echoLog,
                 hcaught>>

\* run_benchmark, line 75: the handshake ends.  The connection is open for the
\* client once the server has accepted it and replied; a handshake that fails
\* (reply lost, timeout) raises, whether or not the server accepted.
run_benchmark_connected ==
  /\ pc = "connecting"
  /\ \/ /\ conn.server # "none"
        /\ conn' = [conn EXCEPT !.client = "open"]
        /\ log' = Append(log, "connect")
        /\ pc' = "warm_send"
        /\ UNCHANGED failure
     \/ Raise("ConnectionError")
  /\ UNCHANGED <<args, has_orjson, taken, port, server, uri, c2s, s2c, hpc,
                 hmsg, i, timer, clock, metrics, out, sentLog, recvLog,
                 echoLog, hcaught>>

\* the message of one send: encode(msg_obj), numbered by its place in the
\* driver's sends
NextMsg == [seq |-> Len(sentLog), data |-> encode(has_orjson, args.payload)]

\* "await ws.send(data)": returns while the client's end is open, else
\* ConnectionClosed; what is sent into a connection whose server end is gone
\* is lost
Send(event, next) ==
  \/ /\ conn.client = "open"
     /\ c2s' = IF conn.server = "open" THEN Append(c2s, NextMsg) ELSE c2s
     /\ sentLog' = Append(sentLog, NextMsg)
     /\ log' = Append(log, event)
     /\ pc' = next
     /\ UNCHANGED <<failure, conn>>
  \/ /\ conn.client # "open"
     /\ Raise("ConnectionClosed")
     /\ UNCHANGED <<c2s, sentLog>>

\* "await ws.recv()": the next reply if one has arrived, ConnectionClosed if
\* none has and the client's end is closed, and suspended otherwise
Recv(event, next) ==
  \/ /\ s2c # <<>>
     /\ s2c' = Tail(s2c)
     /\ recvLog' = Append(recvLog, Head(s2c))
     /\ log' = Append(log, event)
     /\ pc' = next
     /\ UNCHANGED <<failure, conn>>
  \/ /\ s2c = <<>>
     /\ conn.client # "open"
     /\ Raise("ConnectionClosed")
     /\ UNCHANGED <<s2c, recvLog>>

\* run_benchmark, line 77: the warm-up send
run_benchmark_warm_send ==
  /\ pc = "warm_send"
  /\ Send("warm_send", "warm_recv")
  /\ UNCHANGED <<args, has_orjson, taken, port, server, uri, s2c, hpc, hmsg,
                 i, timer, clock, metrics, out, recvLog, echoLog, hcaught>>

\* run_benchmark, line 78: the warm-up reply, discarded
run_benchmark_warm_recv ==
  /\ pc = "warm_recv"
  /\ Recv("warm_recv", "t0")
  /\ UNCHANGED <<args, has_orjson, taken, port, server, uri, c2s, hpc, hmsg,
                 i, timer, clock, metrics, out, sentLog, echoLog, hcaught>>

\* run_benchmark, line 80: t0 = time.perf_counter_ns()
run_benchmark_t0 ==
  /\ pc = "t0"
  /\ timer' = <<clock>>
  /\ log' = Append(log, "t0")
  /\ pc' = "loop_head"
  /\ UNCHANGED <<args, has_orjson, taken, port, failure, server, conn, uri,
                 c2s, s2c, hpc, hmsg, i, clock, metrics, out, sentLog,
                 recvLog, echoLog, hcaught>>

\* Seeded fault: an off-by-one loop bound.
LoopContinuesOffByOne == i <= args.iters

\* run_benchmark, line 81: "for i in range(iters)" has another iteration
LoopContinues == i < args.iters

run_benchmark_loop_head ==
  /\ pc = "loop_head"
  /\ pc' = IF LoopContinues THEN "loop_send" ELSE "t1"
  /\ UNCHANGED <<args, has_orjson, taken, port, failure, server, conn, uri,
                 c2s, s2c, hpc, hmsg, i, timer, clock, metrics, out, log,
                 sentLog, recvLog, echoLog, hcaught>>

\* Seeded fault: the loop sends without waiting for the reply (pipelining).
run_benchmark_loop_send_pipelined ==
  /\ pc = "loop_send"
  /\ Send("send", "loop_head")
  /\ i' = IF pc' = "loop_head" THEN i + 1 ELSE i
  /\ UNCHANGED <<args, has_orjson, taken, port, server, uri, s2c, hpc, hmsg,
                 timer, clock, metrics, out, recvLog, echoLog, hcaught>>

\* run_benchmark, lines 83-84: encode and send inside the timed loop
run_benchmark_loop_send ==
  /\ pc = "loop_send"
  /\ Send("send", "loop_recv")
  /\ UNCHANGED <<args, has_orjson, taken, port, server, uri, s2c, hpc, hmsg,
                 i, timer, clock, metrics, out, recvLog, echoLog, hcaught>>

\* run_benchmark, line 85: wait for the reply, then the next iteration; a
\* round trip takes time
run_benchmark_loop_recv ==
  /\ pc = "loop_recv"
  /\ Recv("recv", "loop_head")
  /\ IF pc' = "loop_head"
       THEN /\ i' = i + 1
            /\ \E d \in 1..MaxTick : clock' = clock + d
       ELSE UNCHANGED <<i, clock>>
  /\ UNCHANGED <<args, has_orjson, taken, port, server, uri, c2s, hpc, hmsg,
                 timer, metrics, out, sentLog, echoLog, hcaught>>

\* Seeded fault: line 86 dedented, so the timer is stopped after the
\* connection is closed.
run_benchmark_t1_after_close ==
  /\ pc = "t1"
  /\ conn' = IF conn.client = "open"
               THEN [client |-> "closed_ok",
                     server |-> IF conn.server = "open" THEN "closed_ok"
                                ELSE conn.server]
               ELSE conn
  /\ \E d \in 0..MaxTick :
       /\ clock' = clock + d
       /\ timer' = Append(timer, clock')
  /\ log' = log \o <<"close_client", "t1">>
  /\ pc' = "compute"
  /\ UNCHANGED <<args, has_orjson, taken, port, failure, server, uri, c2s,
                 s2c, hpc, hmsg, i, metrics, out, sentLog, recvLog, echoLog,
                 hcaught>>

\* run_benchmark, line 86: t1 = time.perf_counter_ns(); the clock may or may
\* not have moved since the last step
run_benchmark_t1 ==
  /\ pc = "t1"
  /\ \E d \in 0..MaxTick :
       /\ clock' = clock + d
       /\ timer' = Append(timer, clock')
  /\ log' = Append(log, "t1")
  /\ pc' = "close_client"
  /\ UNCHANGED <<args, has_orjson, taken, port, failure, server, conn, uri,
                 c2s, s2c, hpc, hmsg, i, metrics, out, sentLog, recvLog,
                 echoLog, hcaught>>

\* Seeded fault: the connection is left open when the block is left.
run_benchmark_close_client_deferred ==
  /\ pc = "close_client"
  /\ pc' = "compute"
  /\ UNCHANGED <<args, has_orjson, taken, port, failure, server, conn, uri,
                 c2s, s2c, hpc, hmsg, i, timer, clock, metrics, out, log,
                 sentLog, recvLog, echoLog, hcaught>>

\* run_benchmark, line 75: leaving "async with websockets.connect(uri)" calls
\* close(): an open client end starts the closing handshake, and the driver
\* is suspended until the connection is closed
run_benchmark_close_client ==
  /\ pc = "close_client"
  /\ conn' = [conn EXCEPT !.client = IF @ = "open" THEN "closing" ELSE @]
  /\ pc' = "close_wait"
  /\ UNCHANGED <<args, has_orjson, taken, port, failure, server, uri, c2s,
                 s2c, hpc, hmsg, i, timer, clock, metrics, out, log, sentLog,
                 recvLog, echoLog, hcaught>>

\* run_benchmark, line 75: close() returns.  The closing handshake is complete
\* when the server's end has closed in answer; close() waits for nothing
\* else, so the handler may have returned already or may still be in its
\* "async for" (only the exit of websockets.serve, line 120, waits for it).
\* A client end that was or became closed otherwise has nothing to wait for.
run_benchmark_closed ==
  /\ pc = "close_wait"
  /\ \/ /\ conn.client = "closing"
        /\ conn.server = "closed_ok"
        /\ conn' = [conn EXCEPT !.client = "closed_ok"]
     \/ /\ conn.client \in {"closed_ok", "closed_err"}
        /\ UNCHANGED conn
  /\ log' = Append(log, "close_client")
  /\ pc' = "compute"
  /\ UNCHANGED <<args, has_orjson, taken, port, failure, server, uri, c2s,
                 s2c, hpc, hmsg, i, timer, clock, metrics, out, sentLog,
                 recvLog, echoLog, hcaught>>

\* run_benchmark, lines 88-91
total_ns == timer[2] - timer[1]
\* total_ns / iters, kept exact as a fraction
ns_per == [num |-> total_ns, den |-> args.iters]
\* 1e9 * iters / total_ns, kept exact as a fraction scaled by 1e9
ops_per_sec == [scale |-> "1e9", num |-> args.iters, den |-> total_ns]
bytes_per == Len(encode(has_orjson, args.payload))

\* lines 89 and 90 raise ZeroDivisionError on a zero divisor
run_benchmark_compute ==
  /\ pc = "compute"
  /\ \/ /\ args.iters # 0
        /\ total_ns # 0
        /\ metrics' = [computed |-> TRUE, total_ns |-> total_ns,
                       ns_per |-> ns_per, ops_per_sec |-> ops_per_sec,
                       bytes_per |-> bytes_per]
        /\ pc' = "print_summary"
        /\ UNCHANGED <<failure, log, conn>>
     \/ /\ args.iters = 0 \/ total_ns = 0
        /\ Raise("ZeroDivisionError")
        /\ UNCHANGED metrics
  /\ UNCHANGED <<args, has_orjson, taken, port, server, uri, c2s, s2c, hpc,
                 hmsg, i, timer, clock, out, sentLog, recvLog, echoLog,
                 hcaught>>

\* run_benchmark, line 93
run_benchmark_print_summary ==
  /\ pc = "print_summary"
  /\ out' = Append(out, [kind |-> "summary", iters |-> args.iters,
                         payload |-> args.payload,
                         bytes_per |-> metrics.bytes_per])
  /\ log' = Append(log, "print_summary")
  /\ pc' = "print_metrics"
  /\ UNCHANGED <<args, has_orjson, taken, port, failure, server, conn, uri,
                 c2s, s2c, hpc, hmsg, i, timer, clock, metrics, sentLog,
                 recvLog, echoLog, hcaught>>

\* run_benchmark, line 94
run_benchmark_print_metrics ==
  /\ pc = "print_metrics"
  /\ out' = Append(out, [kind |-> "metrics", total_ns |-> metrics.total_ns,
                         ns_per |-> metrics.ns_per,
                         ops_per_sec |-> metrics.ops_per_sec])
  /\ log' = Append(log, "print_metrics")
  /\ pc' = "server_exit"
  /\ UNCHANGED <<args, has_orjson, taken, port, failure, server, conn, uri,
                 c2s, s2c, hpc, hmsg, i, timer, clock, metrics, sentLog,
                 recvLog, echoLog, hcaught>>

\* _async_main, line 120: leaving "async with websockets.serve(...)": the
\* server closes the connection it still holds open ...
async_main_server_exit ==
  /\ pc = "server_exit"
  /\ conn' = [conn EXCEPT !.server = IF @ = "open" THEN "closed_ok" ELSE @]
  /\ pc' = "server_wait"
  /\ UNCHANGED <<args, has_orjson, taken, port, failure, server, uri, c2s, s2c,
                 hpc, hmsg, i, timer, clock, metrics, out, log, sentLog,
                 recvLog, echoLog, hcaught>>

\* ... and waits for the connection handler to finish; then asyncio.run
\* returns or re-raises (line 123).
async_main_server_closed ==
  /\ pc = "server_wait"
  /\ hpc \in {"none", "returned", "raised"}
  /\ server' = [server EXCEPT !.state = "closed"]
  /\ log' = Append(log, "server_close")
  /\ pc' = IF failure = "none" THEN "done" ELSE "failed"
  /\ UNCHANGED <<args, has_orjson, taken, port, failure, conn, uri, c2s, s2c,
                 hpc, hmsg, i, timer, clock, metrics, out, sentLog, recvLog,
                 echoLog, hcaught>>

\* ------------------------------------------------------------ echo_handler
\* Seeded fault: the reply loses its first byte.
EchoReplyTruncated(msg) == [msg EXCEPT !.data = Tail(@)]

\* Seeded fault: the handler lets the exception escape.
HandlerOnErrorReraise == "raised"

\* line 54: what the handler sends for a message it received
EchoReply(msg) == msg

\* lines 55-57: how the handler ends on an exception
HandlerOnError == "returned"

\* lines 48-53: the server accepts the connection during the opening
\* handshake; its end opens and echo_handler starts and runs to its first
\* wait for a message
echo_handler_start ==
  /\ pc = "connecting"
  /\ server.state = "listening"
  /\ conn.server = "none"
  /\ conn' = [conn EXCEPT !.server = "open"]
  /\ hpc' = "recv"
  /\ UNCHANGED <<args, has_orjson, taken, pc, port, failure, server, uri, c2s,
                 s2c, hmsg, i, timer, clock, metrics, out, log, sentLog,
                 recvLog, echoLog, hcaught>>

\* line 53: the server's end receives the client's close, after every message
\* sent before it, and closes in answer
ServerSeesClose ==
  /\ conn.client = "closing"
  /\ conn.server = "open"
  /\ c2s = <<>>
  /\ conn' = [conn EXCEPT !.server = "closed_ok"]
  /\ UNCHANGED <<args, has_orjson, taken, pc, port, failure, server, uri, c2s,
                 s2c, hpc, hmsg, i, timer, clock, metrics, out, log, sentLog,
                 recvLog, echoLog, hcaught>>

\* line 53: "async for msg in ws" yields the next message
echo_handler_recv ==
  /\ hpc = "recv"
  /\ c2s # <<>>
  /\ hmsg' = Head(c2s)
  /\ c2s' = Tail(c2s)
  /\ echoLog' = [echoLog EXCEPT !.received = Append(@, Head(c2s))]
  /\ hpc' = "send"
  /\ UNCHANGED <<args, has_orjson, taken, pc, port, failure, server, conn,
                 uri, s2c, i, timer, clock, metrics, out, log, sentLog,
                 recvLog, hcaught>>

\* line 53: the server's end is closed and nothing is left to read; a normal
\* close ends the iteration, an abnormal one raises into lines 55-57
echo_handler_end ==
  /\ hpc = "recv"
  /\ c2s = <<>>
  /\ \/ /\ conn.server = "closed_ok"
        /\ hpc' = "returned"
        /\ UNCHANGED hcaught
     \/ /\ conn.server = "closed_err"
        /\ hpc' = HandlerOnError
        /\ hcaught' = TRUE
  /\ UNCHANGED <<args, has_orjson, taken, pc, port, failure, server, conn,
                 uri, c2s, s2c, hmsg, i, timer, clock, metrics, out, log,
                 sentLog, recvLog, echoLog>>

\* Seeded fault: the handler reads the message and never replies.
echo_handler_send_drop ==
  /\ hpc = "send"
  /\ hpc' = "recv"
  /\ UNCHANGED <<args, has_orjson, taken, pc, port, failure, server, conn,
                 uri, c2s, s2c, hmsg, i, timer, clock, metrics, out, log,
                 sentLog, recvLog, echoLog, hcaught>>

\* line 54: "await ws.send(msg)": returns while the server's end is open
\* (the reply is lost when the client's end is gone), and on a closed end
\* raises into lines 55-57
echo_handler_send ==
  /\ hpc = "send"
  /\ \/ /\ conn.server = "open"
        /\ s2c' = IF conn.client \in {"open", "closing"}
                    THEN Append(s2c, EchoReply(hmsg)) ELSE s2c
        /\ echoLog' = [echoLog EXCEPT !.emitted = Append(@, EchoReply(hmsg))]
        /\ hpc' = "recv"
        /\ UNCHANGED hcaught
     \/ /\ conn.server # "open"
        /\ hpc' = HandlerOnError
        /\ hcaught' = TRUE
        /\ UNCHANGED <<s2c, echoLog>>
  /\ UNCHANGED <<args, has_orjson, taken, pc, port, failure, server, conn,
                 uri, c2s, hmsg, i, timer, clock, metrics, out, log, sentLog,
                 recvLog>>

\* ------------------------------------------------------------ specification
Driver ==
  \/ main_use_sdk
  \/ main_resolve_port
  \/ async_main_serve
  \/ run_benchmark_connect
  \/ run_benchmark_connected
  \/ run_benchmark_warm_send
  \/ run_benchmark_warm_recv
  \/ run_benchmark_t0
  \/ run_benchmark_loop_head
  \/ run_benchmark_loop_send
  \/ run_benchmark_loop_recv
  \/ run_benchmark_t1
  \/ run_benchmark_close_client
  \/ run_benchmark_closed
  \/ run_benchmark_compute
  \/ run_benchmark_print_summary
  \/ run_benchmark_print_metrics
  \/ async_main_server_exit
  \/ async_main_server_closed

Handler ==
  \/ echo_handler_start
  \/ echo_handler_recv
  \/ echo_handler_end
  \/ echo_handler_send

Transport ==
  \/ PeerNotices
  \/ ServerSeesClose

Environment ==
  \/ OtherProcessBinds
  \/ NetFault

Next == Driver \/ Handler \/ Transport \/ Environment

Spec == Init /\ [][Next]_vars

\* The event loop does not idle while a task is ready, a close is still to
\* reach the server's end or a break of the connection is still to show at
\* the other end: when such a step stays possible, one is eventually taken.
\* Faults are never forced.
FairSpec == Spec /\ WF_vars(Driver \/ Handler \/ Transport)

\* ------------------------------------------------------------ driver states
\* The driver's state in the terms of the specification's state machine,
\* read off the driver's position.  "ClientClosed" is the stretch between
\* leaving the connect block and the last print.
DriverState ==
  CASE failure # "none" -> "Failed"
    [] pc \in {"main", "resolve_port", "serve"} -> "NotStarted"
    [] pc \in {"connect", "connecting"} -> "ResponderListening"
    [] pc \in {"warm_send", "warm_recv"} -> "Connected"
    [] pc = "t0" -> "WarmedUp"
    [] pc \in {"loop_head", "loop_send", "loop_recv", "t1", "close_client",
               "close_wait"} -> "Measuring"
    [] pc \in {"compute", "print_summary", "print_metrics"} -> "ClientClosed"
    [] pc \in {"server_exit", "server_wait"} -> "Reported"
    [] pc = "done" -> "Closed"

Terminated == pc \in {"done", "failed"}

\* the number of measured round trips a run with this iteration count makes
MeasuredTrips == IF args.iters > 0 THEN args.iters ELSE 0

\* ------------------------------------------------------------------ claims

\* C1: for every iteration count N >= 0, once the timer has been stopped the
\* driver has sent exactly N messages between the timer's start and stop, and
\* exactly one warm-up message, sent before the timer was started.
C1_MeasuredSendsEqualIters ==
  (InSeq("t1", log) /\ args.iters >= 0) =>
    LET a == FirstIdx("t0", log)
        b == FirstIdx("t1", log)
    IN /\ Cardinality({k \in (a + 1)..(b - 1) : log[k] = "send"}) = args.iters
       /\ Count("send", log) = args.iters
       /\ Count("warm_send", log) = 1
       /\ FirstIdx("warm_send", log) < a
       /\ Len(sentLog) = args.iters + 1
C1_Witness == InSeq("t1", log) /\ args.iters = 2 /\ Count("send", log) = 2

\* C2: every reply the driver receives is, in order, exactly the message it
\* sent (warm-up and measured, empty payload included); what the handler
\* emits is, in order, what it received, what it received is what the
\* driver sent, and whatever is in flight is the next of these (a broken
\* connection loses messages, it never alters or reorders them).
C2_EchoInvariant ==
  /\ IsPrefix(recvLog, sentLog)
  /\ IsPrefix(echoLog.emitted, echoLog.received)
  /\ IsPrefix(echoLog.received, sentLog)
  /\ IsPrefix(recvLog \o s2c, echoLog.emitted)
  /\ IsPrefix(echoLog.received \o c2s, sentLog)
  /\ hpc = "send" => hmsg = echoLog.received[Len(echoLog.received)]
  /\ \A k \in 1..Len(recvLog) :
       recvLog[k].data = encode(has_orjson, args.payload)
C2_Witness ==
  /\ Len(recvLog) = 3
  /\ args.payload = 0
  /\ recvLog[3].seq = 2

\* C3: the exchange is strictly synchronous: at most one driver message is
\* unanswered, at most one message is anywhere between the two tasks, and the
\* driver is about to send only when every earlier message has been answered.
C3_StrictlySynchronous ==
  /\ Len(sentLog) - Len(recvLog) \in {0, 1}
  /\ Len(c2s) + Len(s2c) + (IF hpc = "send" THEN 1 ELSE 0) <= 1
  /\ pc \in {"warm_send", "loop_send"} => Len(sentLog) = Len(recvLog)
  /\ pc \in {"warm_recv", "loop_recv"} => Len(sentLog) = Len(recvLog) + 1
C3_Witness ==
  /\ pc = "loop_recv"
  /\ Len(sentLog) = 3
  /\ Len(recvLog) = 2
  /\ hpc = "send"

\* C4: with iteration count 0 the driver makes no measured round trip and the
\* metric computation does not fail: no exception ends the run.
C4_ZeroItersDefinedOutcome ==
  (args.iters = 0 /\ InSeq("t1", log)) =>
    (Count("send", log) = 0 /\ failure = "none")

\* C5: the client connects only while the responder is listening, and to the
\* responder's own host and port: the configured port, or the one
\* get_free_port picked when the configured port is 0.
C5_ConnectAfterListening ==
  /\ conn # NoConn => uri # <<>>
  /\ uri # <<>> =>
       /\ InSeq("serve", log)
       /\ server.state = "listening" \/ (server.state = "closed" /\ Terminated)
       /\ server.host = uri[1] /\ uri[1] = args.host
       /\ server.port = uri[2]
       /\ uri[2] = (IF args.port # 0 THEN args.port ELSE port)
       /\ uri[2] \in Ports
C5_Witness == conn = OpenConn /\ args.port = 0 /\ taken # {}

\* C6 as stated: the summary is emitted before the client connection is
\* closed, so whenever the driver has closed the connection the metrics line
\* is already out.
C6_ReportedBeforeClientClose ==
  InSeq("close_client", log) => Printed("metrics")

\* C6 as amended: the driver moves only forward through NotStarted,
\* ResponderListening, Connected, WarmedUp, Measuring, ClientClosed, Reported,
\* Closed, skipping none, or into Failed; the client connection is closed
\* before the summary is emitted, and the responder is shut down after it.
StateOrder ==
  <<"NotStarted", "ResponderListening", "Connected", "WarmedUp", "Measuring",
    "ClientClosed", "Reported", "Closed">>
NextState(st) ==
  IF st \in {"Closed", "Failed"} THEN st
  ELSE StateOrder[(CHOOSE k \in 1..Len(StateOrder) : StateOrder[k] = st) + 1]
StateFacts ==
  /\ DriverState = "Measuring" =>
       server.state = "listening" /\ ~InSeq("close_client", log)
  /\ DriverState = "ClientClosed" =>
       /\ conn.client \in {"closed_ok", "closed_err"}
       /\ InSeq("close_client", log)
       /\ server.state = "listening"
       /\ ~Printed("metrics")
  /\ DriverState = "Reported" =>
       /\ conn.client \in {"closed_ok", "closed_err"}
       /\ Printed("summary") /\ Printed("metrics")
       /\ server.state = "listening"
  /\ DriverState = "Closed" =>
       /\ Printed("summary") /\ Printed("metrics")
       /\ server.state = "closed"
C6_DriverStateOrder ==
  [][/\ DriverState' \in {DriverState, NextState(DriverState), "Failed"}
     /\ DriverState = "Failed" => DriverState' = "Failed"
     /\ StateFacts']_vars
C6_Witness == DriverState = "Closed" /\ args.iters = 2

\* C7: the measured interval covers exactly the measured round trips: the
\* timer is started after the warm-up reply, only measured sends and replies
\* lie between start and stop, every one of them does, the timer is stopped
\* when every measured send has its reply, and the connection is closed
\* after the stop.
C7_MeasuredInterval ==
  /\ Count("t0", log) = (IF Len(timer) >= 1 THEN 1 ELSE 0)
  /\ Count("t1", log) = (IF Len(timer) = 2 THEN 1 ELSE 0)
  /\ Len(timer) <= 2
  /\ InSeq("t0", log) =>
       /\ InSeq("warm_recv", log)
       /\ FirstIdx("warm_recv", log) < FirstIdx("t0", log)
       /\ FirstIdx("connect", log) < FirstIdx("t0", log)
  /\ \A k \in 1..Len(log) :
       log[k] \in {"send", "recv"} =>
         /\ InSeq("t0", log) /\ FirstIdx("t0", log) < k
         /\ InSeq("t1", log) => k < FirstIdx("t1", log)
  /\ InSeq("t1", log) =>
       /\ \A k \in (FirstIdx("t0", log) + 1)..(FirstIdx("t1", log) - 1) :
            log[k] \in {"send", "recv"}
       /\ Count("recv", log) = Count("send", log)
       /\ Count("recv", log) = MeasuredTrips
       /\ timer[1] <= timer[2]
  /\ InSeq("close_client", log) =>
       /\ InSeq("t1", log)
       /\ FirstIdx("t1", log) < FirstIdx("close_client", log)
C7_Witness ==
  /\ InSeq("close_client", log)
  /\ Count("recv", log) = 2
  /\ timer[2] - timer[1] >= 2

\* C8: once a step has raised (the connection could not be established, a
\* send or a wait for a reply failed, or any other exception), the run only
\* unwinds to the failure state: no step is retried, nothing more is sent or
\* received, and neither the summary nor the metrics line is printed; a
\* summary line is only ever printed by a run without failure.
C8_FailFastNoPartialResult ==
  /\ InSeq("raise", log) =>
       /\ failure # "none"
       /\ pc \in {"server_exit", "server_wait", "failed"}
       /\ Count("raise", log) = 1
       /\ \A k \in 1..Len(log) :
            k > FirstIdx("raise", log) => log[k] = "server_close"
  /\ failure # "none" =>
       /\ InSeq("raise", log)
       /\ ~Printed("summary") /\ ~Printed("metrics")
       /\ ~metrics.computed
       /\ pc # "done"
  /\ (uri # <<>> /\ conn.client = "none" /\ pc # "connecting") =>
       failure = "ConnectionError"
  /\ Count("connect", log) <= 1
C8_Witness ==
  /\ failure = "ConnectionClosed"
  /\ pc = "failed"
  /\ Count("recv", log) = 1
  /\ args.iters = 2

\* The driver's failure after a handler error, as first stated: the driver
\* fails only in a send or in a wait for a reply.
C9_ObservedOnlyBySendOrWait ==
  [][(hcaught /\ failure = "none" /\
        failure' \notin {"none", "ZeroDivisionError"}) =>
          pc \in {"warm_send", "warm_recv", "loop_send", "loop_recv"}]_vars

\* C9: an exception in echo_handler ends the handler silently: the handler
\* returns (it never raises), and the step in which it catches the exception
\* changes nothing of the driver or the server; a driver that fails on its
\* connection afterwards fails in a step of its own: the end of its connect,
\* a send or a wait for a reply.
C9_HandlerErrorSilent ==
  /\ [](hpc # "raised")
  /\ [][(hcaught' /\ ~hcaught) =>
          /\ hpc' = "returned"
          /\ UNCHANGED driverVars
          /\ UNCHANGED <<server, conn>>]_vars
  /\ [][(hcaught /\ failure = "none" /\
         failure' \notin {"none", "ZeroDivisionError"}) =>
          \/ pc = "connecting" /\ failure' = "ConnectionError"
          \/ /\ pc \in {"warm_send", "warm_recv", "loop_send", "loop_recv"}
             /\ failure' = "ConnectionClosed"]_vars
C9_Witness ==
  /\ hcaught
  /\ failure = "ConnectionError"
  /\ conn.server = "closed_err"
  /\ pc = "failed"

\* C10: under fair scheduling of the two tasks every run ends: either it
\* completed all measured round trips, printed both lines and shut the
\* responder down, or it ended in the failure state.
Completed ==
  /\ pc = "done"
  /\ failure = "none"
  /\ Count("recv", log) = MeasuredTrips
  /\ Printed("summary") /\ Printed("metrics")
  /\ server.state = "closed"
Failed == pc = "failed" /\ failure # "none"
C10_RunTerminates == <>[](Completed \/ Failed)
C10_Witness == Completed /\ args.iters = 2 /\ ~hcaught

====
